---- MODULE Spec2Model ----
(***************************************************************************)
(* A model of the object store, the pkt-line reader, the ref selection and *)
(* the packfile unpacker of cmd/mygit.  Byte strings are sequences of      *)
(* numbers 0..255; text is the sequence of its ASCII codes.                *)
(***************************************************************************)
EXTENDS Integers, Sequences, FiniteSets, TLC

VARIABLES
    pc,            \* position of the running operation
    store,         \* .git/objects: hex object name -> bytes of the object file
    written,       \* history: every writeObjectWithType call so far
    lastWrite,     \* history: the latest writeObjectWithType call and its return
    packfile,      \* argument of writePackfile
    used,          \* writePackfile: read position in the pack
    numObjects,    \* writePackfile: object count declared by the pack header
    objectsRead,   \* writePackfile: object records read so far
    lastType,      \* writePackfile: type code of the record read last
    recs,          \* history: the records the pack was built from
    startStore,    \* history: the store when writePackfile was called
    deltaObjects,  \* writePackfile: queue of unresolved reference-deltas
    result,        \* outcome of the operation: none, ok, err or panic
    errmsg,        \* the error text returned, when result = "err"
    discovery,     \* getPackfile: unread bytes of the info/refs response
    pktLines,      \* getPackfile: payloads read so far
    lastIn,        \* history: argument of the latest readPktLine call
    lastOut,       \* history: what the latest readPktLine call returned
    objectName,    \* getPackfile: the hash selected by getObjectName
    getStatus,     \* status of the response to the GET of info/refs, 0 before it
    postStatus,    \* status of the response to the POST of git-upload-pack, 0 before it
    request,       \* getPackfile: body of the POST request, empty before it is sent
    dBase,         \* writeDeltaObject: baseObject argument
    dDelta,        \* writeDeltaObject: deltaObject argument
    dType,         \* writeDeltaObject: objectType argument
    dTarget,       \* history: the bytes the delta was encoded from
    workTree,      \* writeTree: the directory it is applied to
    treeObject,    \* writeTree: the hash it returned, empty before it returns
    header,        \* readObjectHeader, readSize: the bytes they are applied to
    headerOut      \* what readObjectHeader and readSize returned for them

vars == <<pc, store, written, lastWrite, packfile, recs, startStore, used, numObjects, objectsRead, lastType, deltaObjects, result, errmsg, discovery,
          pktLines, lastIn, lastOut, objectName, getStatus, postStatus, request,
          dBase, dDelta, dType, dTarget, workTree, treeObject, header, headerOut>>

packVars == <<packfile, recs, startStore, used, numObjects, objectsRead, lastType,
              deltaObjects>>
storeVars == <<store, written, lastWrite>>
pktVars == <<discovery, pktLines, lastIn, lastOut, objectName, getStatus, postStatus,
             request>>
deltaVars == <<dBase, dDelta, dType, dTarget>>
treeVars == <<workTree, treeObject>>
sizeVars == <<header, headerOut>>

----------------------------------------------------------------------------
(* Bytes and text *)

Min(a, b) == IF a < b THEN a ELSE b

Drop(s, n) == SubSeq(s, n + 1, Len(s))

Take(s, n) == SubSeq(s, 1, n)

Zeros(n) == [i \in 1..n |-> 0]

TextBlob == <<98, 108, 111, 98>>
TextTree == <<116, 114, 101, 101>>
TextCommit == <<99, 111, 109, 109, 105, 116>>
TextTag == <<116, 97, 103>>
TextPACK == <<80, 65, 67, 75>>
TextMaster == <<114,101,102,115,47,104,101,97,100,115,47,109,97,115,116,101,114>>
TextMain == <<114,101,102,115,47,104,101,97,100,115,47,109,97,105,110>>
TextHEAD == <<72, 69, 65, 68>>
TextService == <<35,32,115,101,114,118,105,99,101,61,103,105,116,45,117,112,108,111,
                 97,100,45,112,97,99,107,10>>
TextWant == <<119, 97, 110, 116>>
TextDone == <<100, 111, 110, 101>>
TextNAK == <<78, 65, 75, 10>>
TextNotFound == <<78, 111, 116, 32, 70, 111, 117, 110, 100>>
TextCaps == <<109, 117, 108, 116, 105, 95, 97, 99, 107>>

\* bytes.IndexByte: 0-based index of the first c in s, -1 when absent
RECURSIVE IndexFrom(_, _, _)
IndexFrom(s, c, i) ==
    IF i > Len(s) THEN -1
    ELSE IF s[i] = c THEN i - 1
    ELSE IndexFrom(s, c, i + 1)

IndexByte(s, c) == IndexFrom(s, c, 1)

\* fmt %d
RECURSIVE Itoa(_)
Itoa(n) == IF n < 10 THEN <<48 + n>> ELSE Itoa(n \div 10) \o <<48 + (n % 10)>>

IsDigit(c) == c >= 48 /\ c <= 57

IsSpace(c) == c \in {32, 9, 10, 13}

\* number of leading bytes of s, from position i on, that satisfy the test
RECURSIVE SpanDigits(_, _)
SpanDigits(s, i) == IF i <= Len(s) /\ IsDigit(s[i]) THEN 1 + SpanDigits(s, i + 1) ELSE 0

RECURSIVE SpanSpace(_, _)
SpanSpace(s, i) == IF i <= Len(s) /\ IsSpace(s[i]) THEN 1 + SpanSpace(s, i + 1) ELSE 0

RECURSIVE SpanToken(_, _)
SpanToken(s, i) == IF i <= Len(s) /\ ~IsSpace(s[i]) THEN 1 + SpanToken(s, i + 1) ELSE 0

RECURSIVE DigitsValue(_, _, _)
DigitsValue(s, i, n) == IF n = 0 THEN 0 ELSE DigitsValue(s, i, n - 1) * 10 + (s[i + n - 1] - 48)

\* fmt.Sscanf(s, "%s %d", &a, &n): operands a scan does not reach keep their zero value
ScanStringInt(s) ==
    LET p1 == 1 + SpanSpace(s, 1)
        n1 == SpanToken(s, p1)
        p2 == p1 + n1 + SpanSpace(s, p1 + n1)
        n2 == SpanDigits(s, p2)
    IN  [str |-> SubSeq(s, p1, p1 + n1 - 1),
         num |-> IF n1 = 0 THEN 0 ELSE DigitsValue(s, p2, n2)]

\* fmt.Sscanf(s, "%s %s", &a, &b)
ScanStringString(s) ==
    LET p1 == 1 + SpanSpace(s, 1)
        n1 == SpanToken(s, p1)
        p2 == p1 + n1 + SpanSpace(s, p1 + n1)
        n2 == SpanToken(s, p2)
    IN  [a |-> SubSeq(s, p1, p1 + n1 - 1),
         b |-> IF n1 = 0 THEN <<>> ELSE SubSeq(s, p2, p2 + n2 - 1)]

HexDigit(v) == IF v < 10 THEN 48 + v ELSE 87 + v

\* hex.EncodeToString and fmt %x: two lowercase digits per byte
RECURSIVE hexDump(_)
hexDump(b) ==
    IF b = <<>> THEN <<>>
    ELSE <<HexDigit(b[1] \div 16), HexDigit(b[1] % 16)>> \o hexDump(Tail(b))

\* encoding/hex fromHexChar: -1 for a byte that is no hex digit
FromHexChar(c) ==
    IF c >= 48 /\ c <= 57 THEN c - 48
    ELSE IF c >= 97 /\ c <= 102 THEN c - 87
    ELSE IF c >= 65 /\ c <= 70 THEN c - 55
    ELSE -1

----------------------------------------------------------------------------
(* Digest and compression.  SHA-1 is a 20-byte digest of a byte string and  *)
(* zlib a self-delimiting, checksummed framing of one; each is modelled by  *)
(* a function with those properties that TLC can compute.                   *)

RECURSIVE PowMod(_, _, _)
PowMod(b, e, m) ==
    IF e = 0 THEN 1
    ELSE LET h == PowMod(b, e \div 2, m)
         IN  IF e % 2 = 0 THEN (h * h) % m ELSE (((h * h) % m) * b) % m

\* eight terms of the polynomial by Horner's rule
Horner8(s, lo, b, m) ==
    LET h1 == (s[lo] + 1) % m
        h2 == (h1 * b + s[lo + 1] + 1) % m
        h3 == (h2 * b + s[lo + 2] + 1) % m
        h4 == (h3 * b + s[lo + 3] + 1) % m
        h5 == (h4 * b + s[lo + 4] + 1) % m
        h6 == (h5 * b + s[lo + 5] + 1) % m
        h7 == (h6 * b + s[lo + 6] + 1) % m
    IN  (h7 * b + s[lo + 7] + 1) % m

\* the sum of (s[i] + 1) * b^(hi - i) over lo..hi, modulo m
RECURSIVE PolyHash(_, _, _, _, _)
PolyHash(s, lo, hi, b, m) ==
    IF lo > hi THEN 0
    ELSE IF lo = hi THEN (s[lo] + 1) % m
    ELSE IF hi - lo = 7 THEN Horner8(s, lo, b, m)
    ELSE LET n == hi - lo + 1
             mid == IF n > 8 THEN lo + 8 * ((n \div 8 + 1) \div 2) - 1 ELSE (lo + hi) \div 2
         IN  (PolyHash(s, lo, mid, b, m) * PowMod(b, hi - mid, m)
                + PolyHash(s, mid + 1, hi, b, m)) % m

\* sha1.Sum
hash(b) ==
    LET h1 == PolyHash(b, 1, Len(b), 263, 46337)
        h2 == PolyHash(b, 1, Len(b), 269, 46327)
    IN  <<h1 \div 256, h1 % 256, h2 \div 256, h2 % 256, Len(b) % 256>> \o Zeros(15)

\* the Adler-32 trailer of a zlib stream
Checksum(b) ==
    LET h1 == PolyHash(b, 1, Len(b), 257, 46309)
        h2 == PolyHash(b, 1, Len(b), 251, 46307)
    IN  <<h1 \div 256, h1 % 256, h2 \div 256, h2 % 256>>

\* zlib.NewWriter, Write, Close: header, length-prefixed block, checksum
zip(b) ==
    <<120, 156>> \o <<Len(b) % 256, (Len(b) \div 256) % 256, Len(b) \div 65536>>
        \o b \o Checksum(b)

\* zlib.NewReader over a reader that holds p, then reading to the end:
\* the bytes of the stream and how many bytes of p the stream occupied
Inflate(p) ==
    IF Len(p) < 5 \/ p[1] # 120 \/ p[2] # 156 THEN [err |-> TRUE, n |-> 0, data |-> <<>>]
    ELSE LET n == p[3] + 256 * p[4] + 65536 * p[5]
         IN  IF Len(p) < n + 9 THEN [err |-> TRUE, n |-> 0, data |-> <<>>]
             ELSE IF SubSeq(p, n + 6, n + 9) # Checksum(SubSeq(p, 6, n + 5))
                  THEN [err |-> TRUE, n |-> 0, data |-> <<>>]
             ELSE [err |-> FALSE, n |-> n + 9, data |-> SubSeq(p, 6, n + 5)]

unzip(b) == Inflate(b)

----------------------------------------------------------------------------
(* Object store *)

EmptyStore == [h \in {} |-> <<>>]

\* os.OpenFile(O_CREATE|O_TRUNC) and the copy: the file holds exactly v afterwards
WriteFile(st, k, v) == [h \in DOMAIN st \cup {k} |-> IF h = k THEN v ELSE st[h]]

\* writeObject naming the file after the digest of the compressed bytes
writeObjectZippedName(st, objectData) ==
    LET zippedData == zip(objectData)
        object == hash(zippedData)
    IN  [store |-> WriteFile(st, hexDump(object), zippedData), object |-> object]

writeObject(st, objectData) ==
    LET zippedData == zip(objectData)
        object == hash(objectData)
    IN  [store |-> WriteFile(st, hexDump(object), zippedData), object |-> object]

writeObjectWithType(st, object, objectType) ==
    writeObject(st, objectType \o <<32>> \o Itoa(Len(object)) \o <<0>> \o object)

objectExists(st, h) == h \in DOMAIN st

readObject(st, object) ==
    IF object \notin DOMAIN st THEN [err |-> TRUE, data |-> <<>>]
    ELSE LET u == unzip(st[object]) IN [err |-> u.err, data |-> u.data]

openObject(st, object) ==
    LET r == readObject(st, object)
        idx == IndexByte(r.data, 0)
        scan == ScanStringInt(Take(r.data, idx))
    IN  IF r.err THEN [kind |-> "err", data |-> <<>>, type |-> <<>>]
        ELSE IF idx < 0 THEN [kind |-> "panic", data |-> <<>>, type |-> <<>>]
        ELSE IF idx + scan.num + 1 # Len(r.data)
             THEN [kind |-> "err", data |-> <<>>, type |-> <<>>]
        ELSE [kind |-> "ok", data |-> Drop(r.data, idx + 1), type |-> scan.str]

----------------------------------------------------------------------------
(* Pkt-lines and ref selection *)

\* a[lo:hi] of a Go slice whose backing array holds capacity bytes, those past
\* the length being zero: the bytes, or a panic when hi exceeds the capacity
SliceOK(a, capacity, lo, hi) == lo <= hi /\ hi <= capacity

Slice(a, lo, hi) == [i \in 1..(hi - lo) |-> IF lo + i <= Len(a) THEN a[lo + i] ELSE 0]

\* readPktLine reporting the payload length as the bytes consumed
readPktLinePayloadCount(blob, capacity) ==
    IF Len(blob) < 4 THEN [kind |-> "panic", n |-> 0, data |-> <<>>]
    ELSE
    LET rest == Drop(blob, 4)
        d == [i \in 1..4 |-> FromHexChar(blob[i])]
        size == (d[1] * 16 + d[2]) * 256 + d[3] * 16 + d[4]
        data == Slice(rest, 0, size - 4)
    IN  IF \E i \in 1..4 : d[i] < 0 THEN [kind |-> "err", n |-> 0, data |-> <<>>]
        ELSE IF size = 0 THEN [kind |-> "ok", n |-> 4, data |-> <<>>]
        ELSE IF Len(rest) < size - 4 THEN [kind |-> "err", n |-> 4, data |-> <<>>]
        ELSE IF size <= 4 THEN [kind |-> "panic", n |-> 0, data |-> <<>>]
        ELSE IF data[Len(data)] = 10
             THEN [kind |-> "ok", n |-> size - 4, data |-> Take(data, Len(data) - 1)]
        ELSE [kind |-> "ok", n |-> size - 4, data |-> data]

readPktLine(blob, capacity) ==
    IF Len(blob) < 4 THEN [kind |-> "panic", n |-> 0, data |-> <<>>]
    ELSE
    LET pktLength == Take(blob, 4)
        rest == Drop(blob, 4)
        d == [i \in 1..4 |-> FromHexChar(pktLength[i])]
        size == (d[1] * 16 + d[2]) * 256 + d[3] * 16 + d[4]
        hi == (size + 65536 - 4) % 65536
        data == Slice(rest, 0, hi)
    IN  IF \E i \in 1..4 : d[i] < 0 THEN [kind |-> "err", n |-> 0, data |-> <<>>]
        ELSE IF size = 0 THEN [kind |-> "ok", n |-> 4, data |-> <<>>]
        ELSE IF Len(rest) < size - 4 THEN [kind |-> "err", n |-> 4, data |-> <<>>]
        ELSE IF ~SliceOK(rest, capacity - 4, 0, hi)
             THEN [kind |-> "panic", n |-> 0, data |-> <<>>]
        ELSE IF Len(data) = 0 THEN [kind |-> "panic", n |-> 0, data |-> <<>>]
        ELSE IF data[Len(data)] = 10
             THEN [kind |-> "ok", n |-> size, data |-> Take(data, Len(data) - 1)]
        ELSE [kind |-> "ok", n |-> size, data |-> data]

\* the loop of getObjectName over pktLines[1:], from the line at index i
RECURSIVE getObjectNameFrom(_, _)
getObjectNameFrom(lines, i) ==
    IF i > Len(lines) THEN [err |-> TRUE, hash |-> <<>>]
    ELSE IF Len(lines[i]) = 0 THEN getObjectNameFrom(lines, i + 1)
    ELSE LET f == ScanStringString(lines[i])
         IN  IF f.b = TextMaster THEN [err |-> FALSE, hash |-> f.a]
             ELSE getObjectNameFrom(lines, i + 1)

getObjectName(lines) ==
    IF Len(lines) < 1 THEN [kind |-> "panic", hash |-> <<>>]
    ELSE LET r == getObjectNameFrom(lines, 2)
         IN  [kind |-> IF r.err THEN "err" ELSE "ok", hash |-> r.hash]

----------------------------------------------------------------------------
(* Inputs of the ref discovery: info/refs responses *)

MaxRefs == 2

Hex4(n) ==
    <<HexDigit(n \div 4096), HexDigit((n \div 256) % 16), HexDigit((n \div 16) % 16),
      HexDigit(n % 16)>>

\* the pkt-line framing of payload p, the one the request body is written in
Frame(p) == IF Len(p) = 0 THEN <<48, 48, 48, 48>> ELSE Hex4(Len(p) + 4) \o p

HashA == hexDump(hash(<<1>>))
HashB == hexDump(hash(<<2>>))
HashC == hexDump(hash(<<3>>))

\* one advertised ref, with the capability list when it is the first ref
RefLine(h, ref, caps, lf) ==
    h \o <<32>> \o ref \o (IF caps THEN <<0>> \o TextCaps ELSE <<>>)
      \o (IF lf THEN <<10>> ELSE <<>>)

FirstRefLines ==
    {RefLine(HashA, TextHEAD, TRUE, TRUE), RefLine(HashB, TextMaster, TRUE, TRUE),
     RefLine(HashC, TextMain, TRUE, TRUE), RefLine(HashB, TextMaster, FALSE, TRUE)}

LaterRefLines ==
    {RefLine(HashB, TextMaster, FALSE, TRUE), RefLine(HashC, TextMain, FALSE, TRUE),
     RefLine(HashB, TextMaster, FALSE, FALSE)}

RefLists ==
    {<<>>} \cup {<<f>> : f \in FirstRefLines}
      \cup {<<f>> \o t : f \in FirstRefLines,
                         t \in UNION {[1..k -> LaterRefLines] : k \in 1..(MaxRefs - 1)}}

RECURSIVE Frames(_)
Frames(lines) == IF lines = <<>> THEN <<>> ELSE Frame(lines[1]) \o Frames(Tail(lines))

Advertisement(refs) == Frames(<<TextService, <<>>>> \o refs \o <<<<>>>>)

\* tails that are no pkt-line: bad digits, total lengths below 5, truncation
BadTails ==
    {<<48, 48, 48, 49>>, <<48, 48, 48, 50, 120>>, <<48, 48, 48, 51, 120, 121>>,
     <<48, 48, 48, 52>>, <<48, 48, 120, 48, 97>>, <<48, 48, 49, 48, 97, 98>>,
     <<48, 48>>, <<48, 48, 48, 65, 97, 98, 99, 100, 101, 10>>}

Responses ==
    {Advertisement(r) : r \in RefLists}
      \cup {Frames(<<TextService>>) \o b : b \in BadTails}
      \cup {Frames(<<l>>) : l \in LaterRefLines} \cup {<<>>}

PktPayloads ==
    {TextService, <<>>} \cup FirstRefLines \cup LaterRefLines

NoLine == [kind |-> "none", n |-> 0, data |-> <<>>]

NoWrite == [kind |-> "none", object |-> <<>>, type |-> <<>>, hash |-> <<>>,
            before |-> EmptyStore]

InitPkt ==
    /\ pc = "get"
    /\ discovery = <<>>
    /\ pktLines = <<>>
    /\ lastIn = <<>>
    /\ lastOut = NoLine
    /\ objectName = <<>>
    /\ getStatus = 0
    /\ postStatus = 0
    /\ request = <<>>
    /\ workTree = <<>>
    /\ treeObject = <<>>
    /\ header = <<>>
    /\ headerOut = <<>>
    /\ result = "none"
    /\ errmsg = ""
    /\ store = EmptyStore
    /\ written = {}
    /\ lastWrite = NoWrite
    /\ packfile = <<>>
    /\ recs = <<>>
    /\ startStore = EmptyStore
    /\ used = 0
    /\ numObjects = 0
    /\ objectsRead = 0
    /\ lastType = 0
    /\ deltaObjects = <<>>
    /\ dBase = <<>>
    /\ dDelta = <<>>
    /\ dType = <<>>
    /\ dTarget = <<>>

\* what the server may send back to the GET: a response is its status and its
\* body, and a status of 0 stands for a request that got no response
GetResponses ==
    {[status |-> 0, body |-> <<>>]}
      \cup {[status |-> st, body |-> b] : st \in {200, 404}, b \in Responses}

\* getPackfile, lines 81-87: the GET of info/refs and the copy of its body
GetInfoRefs(resp) ==
    /\ pc = "get"
    /\ getStatus' = resp.status
    /\ discovery' = resp.body
    /\ IF resp.status = 0
       THEN /\ pc' = "done"
            /\ result' = "err"
            /\ errmsg' = "get"
       ELSE /\ pc' = "discover"
            /\ UNCHANGED <<result, errmsg>>
    /\ UNCHANGED <<pktLines, lastIn, lastOut, objectName, postStatus, request, packVars,
                   storeVars, deltaVars, treeVars,
                   sizeVars>>

\* getPackfile, one turn of the loop over the discovery bytes; the slice handed
\* to readPktLine has the capacity of the response buffer it is cut from
ReadDiscoveryLine(capacity) ==
    /\ pc = "discover"
    /\ Len(discovery) > 0
    /\ LET r == readPktLine(discovery, capacity)
       IN  /\ lastIn' = discovery
           /\ lastOut' = r
           /\ IF r.kind = "ok"
              THEN /\ discovery' = Drop(discovery, r.n)
                   /\ pktLines' = Append(pktLines, r.data)
                   /\ UNCHANGED <<pc, result, errmsg>>
              ELSE /\ pc' = "done"
                   /\ result' = r.kind
                   /\ errmsg' = IF r.kind = "err" THEN "pkt line" ELSE ""
                   /\ UNCHANGED <<discovery, pktLines>>
    /\ UNCHANGED <<objectName, getStatus, postStatus, request, packVars, storeVars,
                   deltaVars, treeVars,
                   sizeVars>>

\* getPackfile, after the loop: the ref selection
SelectRef ==
    /\ pc = "discover"
    /\ Len(discovery) = 0
    /\ LET r == getObjectName(pktLines)
       IN  /\ objectName' = r.hash
           /\ IF r.kind = "ok"
              THEN /\ pc' = "post"
                   /\ UNCHANGED <<result, errmsg>>
              ELSE /\ pc' = "done"
                   /\ result' = r.kind
                   /\ errmsg' = IF r.kind = "err" THEN "invalid pktLines" ELSE ""
    /\ UNCHANGED <<discovery, pktLines, lastIn, lastOut, getStatus, postStatus, request,
                   packVars, storeVars, deltaVars, treeVars,
                   sizeVars>>

\* the body of the upload-pack request for objectName
WantRequest(name) ==
    <<48, 48, 51, 50>> \o TextWant \o <<32>> \o name \o <<10>>
      \o <<48, 48, 48, 48>> \o <<48, 48, 48, 57>> \o TextDone \o <<10>>

\* what the server may send back to the POST: a response is its status and
\* its body, and a status of 0 stands for a request that got no response
PostResponses ==
    {[status |-> 0, body |-> <<>>]}
      \cup {[status |-> st, body |-> b] :
               st \in {200, 500},
               b \in {Frame(TextNAK) \o TextPACK \o Zeros(8), Frame(TextNAK), <<>>,
                      TextNotFound}}

\* getPackfile, lines 101-114: the request for the pack and the pkt-line that
\* is cut off the front of the response
PostUploadPack(resp, capacity) ==
    /\ pc = "post"
    /\ request' = WantRequest(objectName)
    /\ postStatus' = resp.status
    /\ pc' = "done"
    /\ IF resp.status = 0
       THEN /\ result' = "err"
            /\ errmsg' = "post"
            /\ UNCHANGED <<packfile, lastIn, lastOut>>
       ELSE \E r \in {readPktLine(resp.body, capacity)} :
              /\ lastIn' = resp.body
              /\ lastOut' = r
              /\ result' = r.kind
              /\ errmsg' = IF r.kind = "err" THEN "pkt line" ELSE ""
              /\ packfile' = IF r.kind = "ok" THEN Drop(resp.body, r.n) ELSE <<>>
    /\ UNCHANGED <<discovery, pktLines, objectName, getStatus, recs, startStore, used,
                   numObjects, objectsRead, lastType, deltaObjects, storeVars, deltaVars, treeVars,
                   sizeVars>>

NextPkt ==
    \/ \E resp \in GetResponses : GetInfoRefs(resp)
    \/ \E c \in {Len(discovery), Len(discovery) + 65536} : ReadDiscoveryLine(c)
    \/ SelectRef
    \/ \E resp \in PostResponses :
          \E c \in {Len(resp.body), Len(resp.body) + 512} : PostUploadPack(resp, c)

SpecPkt == InitPkt /\ [][NextPkt]_vars

----------------------------------------------------------------------------
(* Claims about the pkt-line reader and the ref selection *)

HasPrefix(s, p) == Len(s) >= Len(p) /\ Take(s, Len(p)) = p

StripLF(p) == IF Len(p) > 0 /\ p[Len(p)] = 10 THEN Take(p, Len(p) - 1) ELSE p

AllHex(b) == \A i \in 1..4 : FromHexChar(b[i]) >= 0

Declared(b) ==
    ((FromHexChar(b[1]) * 16 + FromHexChar(b[2])) * 16 + FromHexChar(b[3])) * 16
      + FromHexChar(b[4])

\* C8 as stated: readPktLine applied to the framing of a payload p returns
\* exactly p and a bytes-consumed count equal to the length of the frame.
C8_ExactPayload ==
    \A p \in PktPayloads :
        (lastOut.kind # "none" /\ HasPrefix(lastIn, Frame(p)))
            => (lastOut.kind = "ok" /\ lastOut.data = p /\ lastOut.n = Len(Frame(p)))

\* C8 as amended: readPktLine applied to the framing of a payload p returns p
\* without its one trailing newline, if it has one (so exactly p when p does
\* not end in a newline), and a bytes-consumed count equal to the length of
\* the frame.
C8_RoundTrip ==
    \A p \in PktPayloads :
        (lastOut.kind # "none" /\ HasPrefix(lastIn, Frame(p)))
            => (lastOut.kind = "ok" /\ lastOut.data = StripLF(p)
                  /\ lastOut.n = Len(Frame(p)))

C8_Witness ==
    \E p \in PktPayloads :
        /\ Len(p) > 12 /\ p[Len(p)] # 10
        /\ HasPrefix(lastIn, Frame(p)) /\ Len(lastIn) > Len(Frame(p))
        /\ lastOut.kind = "ok" /\ lastOut.data = p /\ lastOut.n = Len(p) + 4

\* C9: readPktLine returns an error for every input whose length prefix is not
\* four hex digits, whose declared total length is 1, 2 or 3, or whose declared
\* total length exceeds the bytes of the input, and it never reports more bytes
\* consumed than the input holds.
C9_MalformedIsError ==
    (lastOut.kind # "none" /\ Len(lastIn) >= 4)
        => /\ lastOut.n <= Len(lastIn)
           /\ (~AllHex(lastIn) \/ Declared(lastIn) \in 1..3
                 \/ Declared(lastIn) > Len(lastIn)) => lastOut.kind = "err"

\* a pkt-line that advertises ref for hash h, with or without capabilities
Names(l, h, ref) ==
    \/ l = h \o <<32>> \o ref
    \/ HasPrefix(l, h \o <<32>> \o ref \o <<0>>)

RefSelectionDone ==
    pc \in {"post", "done"} /\ Len(discovery) = 0 /\ Len(pktLines) >= 1 /\ request = <<>>

\* C10: getObjectName returns the hash advertised for refs/heads/master when
\* some line after the first names that ref, with or without a capability
\* list, and returns an error when no line names it.
C10_MasterSelected ==
    RefSelectionDone =>
        IF \E i \in 2..Len(pktLines) : Names(pktLines[i], HashB, TextMaster)
        THEN pc = "post" /\ result = "none" /\ objectName = HashB
        ELSE pc = "done" /\ result = "err"

----------------------------------------------------------------------------
(* Variable-length sizes.  A uint64 is held as the set of its one bits, so  *)
(* that shifts past bit 63 drop bits as the machine does.                   *)

BitsOf(v, shift, width) ==
    {shift + k : k \in {j \in 0..(width - 1) : (v \div (2 ^ j)) % 2 = 1}} \cap (0..63)

\* int(size) for a size that fits 30 bits; -1 stands for every larger value,
\* which no length in the model equals
IntOf(bits) ==
    LET RECURSIVE Sum(_)
        Sum(i) == IF i > 29 THEN 0 ELSE (IF i \in bits THEN 2 ^ i ELSE 0) + Sum(i + 1)
    IN  IF \E b \in bits : b > 29 THEN -1 ELSE Sum(0)

\* the continuation loop shared by readObjectHeader and readSize; the chunks
\* added to size occupy disjoint bits, so the sum is their union
RECURSIVE sizeLoop(_, _, _, _, _)
sizeLoop(p, data, usedN, size, shift) ==
    IF data < 128 THEN [kind |-> "ok", size |-> size, used |-> usedN]
    ELSE IF Len(p) <= usedN \/ 64 <= shift THEN [kind |-> "err", size |-> {}, used |-> 0]
    ELSE sizeLoop(p, p[usedN + 1], usedN + 1,
                  size \cup BitsOf(p[usedN + 1] % 128, shift, 7), shift + 7)

readObjectHeader(p) ==
    IF Len(p) = 0 THEN [kind |-> "panic", size |-> {}, used |-> 0, objectType |-> 0]
    ELSE LET r == sizeLoop(p, p[1], 1, BitsOf(p[1] % 16, 0, 4), 4)
         IN  [kind |-> r.kind, size |-> r.size, used |-> r.used,
              objectType |-> IF r.kind = "ok" THEN (p[1] \div 16) % 8 ELSE 0]

readSize(p) ==
    IF Len(p) = 0 THEN [kind |-> "panic", size |-> {}, used |-> 0]
    ELSE sizeLoop(p, p[1], 1, BitsOf(p[1] % 128, 0, 7), 7)

readObjectInPackfile(p) == Inflate(p)

readUint32BigEndian(b) == ((b[1] * 256 + b[2]) * 256 + b[3]) * 256 + b[4]

\* verifyPackfile accepting every version from 2 on
verifyPackfileAnyVersion(p) ==
    IF Len(p) < 32 THEN "bad packfile"
    ELSE LET checksum == Drop(p, Len(p) - 20)
             body == Take(p, Len(p) - 20)
         IN  IF checksum # hash(body) THEN "invalid packfile checksum"
             ELSE IF Take(body, 4) # TextPACK THEN "invalid packfile header"
             ELSE IF readUint32BigEndian(SubSeq(body, 5, 8)) < 2
                  THEN "invalid packfile version"
             ELSE ""

verifyPackfile(p) ==
    IF Len(p) < 32 THEN "bad packfile"
    ELSE LET checksum == Drop(p, Len(p) - 20)
             body == Take(p, Len(p) - 20)
         IN  IF checksum # hash(body) THEN "invalid packfile checksum"
             ELSE IF Take(body, 4) # TextPACK THEN "invalid packfile header"
             ELSE IF readUint32BigEndian(SubSeq(body, 5, 8)) \notin {2, 3}
                  THEN "invalid packfile version"
             ELSE ""

----------------------------------------------------------------------------
(* Delta reconstruction *)

\* the operand bytes of a copy instruction, from bit on: the bytes taken for
\* bits 0-6 (0 for a bit not set) and the read position after them
RECURSIVE copyOperand(_, _, _, _, _)
copyOperand(d, opcode, bit, usedN, bytes) ==
    IF bit = 7 THEN [panic |-> FALSE, used |-> usedN, bytes |-> bytes]
    ELSE IF (opcode \div (2 ^ bit)) % 2 = 0
         THEN copyOperand(d, opcode, bit + 1, usedN, Append(bytes, 0))
    ELSE IF usedN >= Len(d) THEN [panic |-> TRUE, used |-> usedN, bytes |-> bytes]
    ELSE copyOperand(d, opcode, bit + 1, usedN + 1, Append(bytes, d[usedN + 1]))

\* the copy argument taken whole as the offset, the size bits included
copyOffsetUnmasked(b) ==
    IF b[4] >= 64 \/ b[5] + b[6] + b[7] > 0 THEN 2 ^ 30
    ELSE b[1] + b[2] * 256 + b[3] * 65536 + b[4] * 16777216

\* argument & 0xFFFFFFFF; every offset of 2^30 or more is held as 2^30, past
\* the capacity of every slice of the model
copyOffset(b) ==
    IF b[4] >= 64 THEN 2 ^ 30 ELSE b[1] + b[2] * 256 + b[3] * 65536 + b[4] * 16777216

\* the copy size with zero left as it is
copySizeNoDefault(b) == b[5] + b[6] * 256 + b[7] * 65536

\* (argument >> 32) & 0xFFFFFF, zero standing for 0x10000
copySize(b) ==
    LET size == b[5] + b[6] * 256 + b[7] * 65536 IN IF size = 0 THEN 65536 ELSE size

\* the instruction loop of writeDeltaObject from read position usedN on
RECURSIVE deltaLoop(_, _, _, _, _, _)
deltaLoop(base, baseCap, d, dCap, usedN, buffer) ==
    IF usedN >= Len(d) THEN [kind |-> "ok", out |-> buffer]
    ELSE LET opcode == d[usedN + 1] IN
         IF opcode >= 128
         THEN LET a == copyOperand(d, opcode, 0, usedN + 1, <<>>)
                  offset == copyOffset(a.bytes)
                  size == copySize(a.bytes)
              IN  IF a.panic \/ ~SliceOK(base, baseCap, offset, offset + size)
                  THEN [kind |-> "panic", out |-> buffer]
                  ELSE deltaLoop(base, baseCap, d, dCap, a.used,
                                 buffer \o Slice(base, offset, offset + size))
         ELSE LET size == opcode % 128
              IN  IF ~SliceOK(d, dCap, usedN + 1, usedN + 1 + size)
                  THEN [kind |-> "panic", out |-> buffer]
                  ELSE deltaLoop(base, baseCap, d, dCap, usedN + 1 + size,
                                 buffer \o Slice(d, usedN + 1, usedN + 1 + size))

\* writeDeltaObject; baseCap and dCap are the capacities of the two slices
writeDeltaObject(st, baseObject, baseCap, deltaObject, dCap, objectType) ==
    LET bs == readSize(deltaObject)
        es == readSize(Drop(deltaObject, bs.used))
        run == deltaLoop(baseObject, baseCap, deltaObject, dCap, bs.used + es.used, <<>>)
        no == [kind |-> "err", store |-> st, out |-> <<>>, wrote |-> FALSE]
    IN  IF bs.kind # "ok" THEN [no EXCEPT !.kind = bs.kind]
        ELSE IF Len(baseObject) # IntOf(bs.size) THEN no
        ELSE IF es.kind # "ok" THEN [no EXCEPT !.kind = es.kind]
        ELSE IF run.kind # "ok" THEN [no EXCEPT !.kind = run.kind]
        ELSE IF IntOf(es.size) # Len(run.out) THEN no
        ELSE [kind |-> "ok", store |-> writeObjectWithType(st, run.out, objectType).store,
              out |-> run.out, wrote |-> TRUE]

----------------------------------------------------------------------------
(* Inputs of writePackfile: packs built from object records *)

MaxRecords == 3
MaxWrites == 2

\* the variable-length size of a delta header and of an offset
RECURSIVE EncodeSize(_)
EncodeSize(n) == IF n < 128 THEN <<n>> ELSE <<128 + (n % 128)>> \o EncodeSize(n \div 128)

\* the type and size header of an object record
EncodeHeader(type, n) ==
    IF n < 16 THEN <<type * 16 + n>>
    ELSE <<128 + type * 16 + (n % 16)>> \o EncodeSize(n \div 16)

Uint32BigEndian(n) ==
    <<n \div 16777216, (n \div 65536) % 256, (n \div 256) % 256, n % 256>>

Copy(off, size) == [op |-> "copy", off |-> off, size |-> size, bytes |-> <<>>]
Insert(bytes) == [op |-> "insert", off |-> 0, size |-> Len(bytes), bytes |-> bytes]

\* one instruction in the pack's delta encoding: operand bytes are present
\* for the non-zero bytes of offset and size, a size of 0x10000 has none
EncodeInstr(i) ==
    IF i.op = "insert" THEN <<i.size>> \o i.bytes
    ELSE LET size == IF i.size = 65536 THEN 0 ELSE i.size
             o == <<i.off % 256, (i.off \div 256) % 256, (i.off \div 65536) % 256,
                    i.off \div 16777216>>
             z == <<size % 256, (size \div 256) % 256, size \div 65536>>
             RECURSIVE Flags(_, _)
             Flags(b, k) == IF k > Len(b) THEN 0
                            ELSE (IF b[k] # 0 THEN 2 ^ (k - 1) ELSE 0) + Flags(b, k + 1)
         IN  <<128 + Flags(o \o z, 1)>> \o SelectSeq(o, LAMBDA x : x # 0)
               \o SelectSeq(z, LAMBDA x : x # 0)

RECURSIVE EncodeInstrs(_)
EncodeInstrs(is) == IF is = <<>> THEN <<>> ELSE EncodeInstr(is[1]) \o EncodeInstrs(Tail(is))

\* the bytes an instruction list stands for, against base
RECURSIVE Target(_, _)
Target(base, is) ==
    IF is = <<>> THEN <<>>
    ELSE (IF is[1].op = "insert" THEN is[1].bytes
          ELSE SubSeq(base, is[1].off + 1, is[1].off + is[1].size))
         \o Target(base, Tail(is))

EncodeDelta(base, is) ==
    EncodeSize(Len(base)) \o EncodeSize(Len(Target(base, is))) \o EncodeInstrs(is)

Serialized(type, object) == type \o <<32>> \o Itoa(Len(object)) \o <<0>> \o object

ObjectId(type, object) == hash(Serialized(type, object))

BaseRecord(code, object) == EncodeHeader(code, Len(object)) \o zip(object)

RefDeltaRecord(base, delta) == EncodeHeader(7, Len(delta)) \o base \o zip(delta)

OfsDeltaRecord(offset, delta) == EncodeHeader(6, Len(delta)) \o EncodeSize(offset) \o zip(delta)

BytesX == <<97, 98>>
BytesY == <<97, 98, 99>>
BytesV == <<98, 97>>
BytesQ == <<113>>
BytesQQ == <<113, 113>>

InstrXY == <<Copy(0, 2), Insert(<<99>>)>>
InstrYX == <<Copy(0, 2)>>
InstrXV == <<Copy(1, 1), Copy(0, 1)>>
InstrQQ == <<Copy(0, 1), Copy(0, 1)>>

RecX == BaseRecord(3, BytesX)
RecXY == RefDeltaRecord(ObjectId(TextBlob, BytesX), EncodeDelta(BytesX, InstrXY))
RecYX == RefDeltaRecord(ObjectId(TextBlob, BytesY), EncodeDelta(BytesY, InstrYX))
RecXV == RefDeltaRecord(ObjectId(TextBlob, BytesX), EncodeDelta(BytesX, InstrXV))
RecQQ == RefDeltaRecord(ObjectId(TextCommit, BytesQ), EncodeDelta(BytesQ, InstrQQ))
\* a delta against X whose one copy instruction has no operand: offset 0, size 0x10000
RecBadCopy == RefDeltaRecord(ObjectId(TextBlob, BytesX), <<2, 2, 128>>)
RecOfs == OfsDeltaRecord(5, EncodeDelta(BytesX, InstrXY))
\* a record header of the reserved type 0
RecType0 == <<0>>
\* a reference-delta header with nothing after it
RecCutRef == <<112>>
\* an offset-delta header with nothing after it
RecCutOfs == <<96>>

\* the records by name
Rec(tag) ==
    CASE tag = "X" -> RecX
      [] tag = "XY" -> RecXY
      [] tag = "YX" -> RecYX
      [] tag = "XV" -> RecXV
      [] tag = "QQ" -> RecQQ
      [] tag = "BadCopy" -> RecBadCopy
      [] tag = "Ofs" -> RecOfs
      [] tag = "Type0" -> RecType0
      [] tag = "CutRef" -> RecCutRef
      [] tag = "CutOfs" -> RecCutOfs

GoodTags == {"X", "XY", "YX", "XV", "QQ", "BadCopy"}
OddTags == {"Ofs", "Type0", "CutRef", "CutOfs"}

TagLists ==
    UNION {[1..k -> GoodTags] : k \in 0..MaxRecords}
      \cup {a \o <<t>> \o b : a \in {<<>>} \cup {<<g>> : g \in GoodTags}, t \in OddTags,
                              b \in {<<>>} \cup {<<g>> : g \in GoodTags}}

RECURSIVE Concat(_)
Concat(ts) == IF ts = <<>> THEN <<>> ELSE Rec(ts[1]) \o Concat(Tail(ts))

Sealed(prefix) == prefix \o hash(prefix)

Pack(magic, version, count, body) ==
    Sealed(magic \o Uint32BigEndian(version) \o Uint32BigEndian(count) \o body)

\* packs whose envelope is sound and whose count is the number of records
SoundPacks == {[recs |-> ts, bytes |-> Pack(TextPACK, 2, Len(ts), Concat(ts))] : ts \in TagLists}

\* packs with a wrong count, a wrong version, a wrong magic, a wrong trailer,
\* fewer than 32 bytes, or bytes after the last record
OddPacks ==
    LET body == RecX \o RecXY
        p == Pack(TextPACK, 2, 2, body)
    IN  {[recs |-> <<"odd">>, bytes |-> b] : b \in
          {Pack(TextPACK, 2, c, body) : c \in {1, 3}}
          \cup {Pack(TextPACK, v, 2, body) : v \in {1, 3, 4}}
          \cup {Pack(<<80, 65, 67, 107>>, 2, 2, body)}
          \cup {[p EXCEPT ![Len(p)] = (p[Len(p)] + 1) % 256],
                [p EXCEPT ![13] = (p[13] + 1) % 256]}
          \cup {Sealed(TextPACK \o Uint32BigEndian(2)), Take(p, 31), <<>>}
          \cup {Pack(TextPACK, 2, 2, body \o Take(RecX, 10))}}

Packs == SoundPacks \cup OddPacks

IdleWrites == {[object |-> BytesX, type |-> TextBlob], [object |-> BytesQ, type |-> TextCommit]}

----------------------------------------------------------------------------
(* writeObjectWithType as a command, and writePackfile step by step *)

Init ==
    /\ pc = "idle"
    /\ store = EmptyStore
    /\ written = {}
    /\ lastWrite = NoWrite
    /\ packfile = <<>>
    /\ recs = <<>>
    /\ startStore = EmptyStore
    /\ used = 0
    /\ numObjects = 0
    /\ objectsRead = 0
    /\ lastType = 0
    /\ deltaObjects = <<>>
    /\ result = "none"
    /\ errmsg = ""
    /\ discovery = <<>>
    /\ pktLines = <<>>
    /\ lastIn = <<>>
    /\ lastOut = NoLine
    /\ objectName = <<>>
    /\ getStatus = 0
    /\ postStatus = 0
    /\ request = <<>>
    /\ workTree = <<>>
    /\ treeObject = <<>>
    /\ header = <<>>
    /\ headerOut = <<>>
    /\ dBase = <<>>
    /\ dDelta = <<>>
    /\ dType = <<>>
    /\ dTarget = <<>>

Entry(object, type, h) == [object |-> object, type |-> type, hash |-> h]

\* writeObjectWithType called with a payload and a type string
WriteObjectWithType(w) ==
    /\ pc = "idle"
    /\ Cardinality(written) < MaxWrites
    /\ \E r \in {writeObjectWithType(store, w.object, w.type)} :
           /\ store' = r.store
           /\ written' = written \cup {Entry(w.object, w.type, r.object)}
           /\ lastWrite' = [kind |-> IF \E e \in written :
                                         e.object = w.object /\ e.type = w.type
                                     THEN "again" ELSE "first",
                            object |-> w.object, type |-> w.type, hash |-> r.object,
                            before |-> store]
    /\ UNCHANGED <<pc, result, errmsg, packVars, pktVars, deltaVars, treeVars,
                   sizeVars>>

\* writePackfile, lines 211-221: the envelope check and the header
StartWritePackfile(p) ==
    /\ pc = "idle"
    /\ packfile' = p.bytes
    /\ recs' = p.recs
    /\ startStore' = store
    /\ lastWrite' = NoWrite
    /\ \E err \in {verifyPackfile(p.bytes)} :
           IF err # ""
           THEN /\ pc' = "done"
                /\ result' = "err"
                /\ errmsg' = err
                /\ UNCHANGED <<used, numObjects>>
           ELSE /\ pc' = "ingest"
                /\ used' = 12
                /\ numObjects' = readUint32BigEndian(SubSeq(p.bytes, 9, 12))
                /\ UNCHANGED <<result, errmsg>>
    /\ UNCHANGED <<store, written, objectsRead, lastType, deltaObjects, pktVars, deltaVars, treeVars,
                   sizeVars>>

TypeStr(t) ==
    IF t = 1 THEN TextCommit ELSE IF t = 2 THEN TextTree ELSE IF t = 3 THEN TextBlob
    ELSE TextTag

Body(p) == Take(p, Len(p) - 20)

\* what one turn of the loop of lines 222-278 comes to: the kind of exit ("ok"
\* to go on), the read position it leaves, the store, and what it queued or wrote
Outcome(k, msg, pos, st) ==
    [kind |-> k, msg |-> msg, used |-> pos, store |-> st, delta |-> <<>>, wrote |-> <<>>]

\* lines 229-247: a commit, tree, blob or tag record whose header ends at u1
readBaseObject(body, st, u1, h) ==
    LET r == readObjectInPackfile(Drop(body, u1))
        w == writeObjectWithType(st, r.data, TypeStr(h.objectType))
    IN  IF r.err THEN Outcome("err", "zlib", u1 + r.n, st)
        ELSE IF IntOf(h.size) # Len(r.data)
             THEN Outcome("err", "bad object header length", u1 + r.n, st)
        ELSE [Outcome("ok", "", u1 + r.n, w.store) EXCEPT
                 !.wrote = <<Entry(r.data, TypeStr(h.objectType), w.object)>>]

\* an offset-delta record that is skipped as if it had been stored
readOfsDeltaSkipped(body, st, u1, h) ==
    LET o == readSize(Drop(body, u1))
        u2 == u1 + o.used
        r == readObjectInPackfile(Drop(body, u2))
    IN  IF o.kind # "ok" THEN Outcome(o.kind, "bad size", u2, st)
        ELSE IF r.err THEN Outcome("err", "zlib", u2 + r.n, st)
        ELSE Outcome("ok", "", u2 + r.n, st)

\* lines 248-262: an offset-delta record
readOfsDelta(body, st, u1, h) ==
    LET o == readSize(Drop(body, u1))
        u2 == u1 + o.used
        r == readObjectInPackfile(Drop(body, u2))
    IN  IF o.kind # "ok" THEN Outcome(o.kind, "bad size", u2, st)
        ELSE IF r.err THEN Outcome("err", "zlib", u2 + r.n, st)
        ELSE IF IntOf(h.size) # Len(r.data)
             THEN Outcome("err", "bad object header length", u2 + r.n, st)
        ELSE Outcome("err", "cant handle ofsdelta object", u2 + r.n, st)

\* lines 263-274: a reference-delta record; p is the slice before the trailer
\* was cut off it, whose bytes the base hash is taken from
readRefDelta(p, body, st, u1, h) ==
    LET base == SubSeq(p, u1 + 1, u1 + 20)
        u2 == u1 + 20
        r == readObjectInPackfile(Drop(body, u2))
    IN  IF u2 > Len(body) THEN Outcome("panic", "", u2, st)
        ELSE IF r.err THEN Outcome("err", "zlib", u2 + r.n, st)
        ELSE IF IntOf(h.size) # Len(r.data)
             THEN Outcome("err", "bad object header length", u2 + r.n, st)
        ELSE [Outcome("ok", "", u2 + r.n, st) EXCEPT
                 !.delta = <<[baseObject |-> hexDump(base), data |-> r.data]>>]

\* one turn of the loop of lines 222-278 at read position u
readRecord(p, st, u) ==
    LET body == Body(p)
        h == readObjectHeader(Drop(body, u))
        u1 == u + h.used
        r == IF h.kind # "ok" THEN Outcome(h.kind, "bad object header", u1, st)
             ELSE IF h.objectType \in 1..4 THEN readBaseObject(body, st, u1, h)
             ELSE IF h.objectType = 6 THEN readOfsDelta(body, st, u1, h)
             ELSE IF h.objectType = 7 THEN readRefDelta(p, body, st, u1, h)
             ELSE Outcome("err", "invalid object type", u1, st)
    IN  [kind |-> r.kind, msg |-> r.msg, used |-> r.used, store |-> r.store,
         delta |-> r.delta, wrote |-> r.wrote, type |-> h.objectType]

ReadRecord ==
    /\ pc = "ingest"
    /\ used < Len(Body(packfile))
    /\ \E r \in {readRecord(packfile, store, used)} :
           /\ objectsRead' = objectsRead + 1
           /\ used' = r.used
           /\ lastType' = r.type
           /\ store' = r.store
           /\ written' = written \cup {r.wrote[i] : i \in 1..Len(r.wrote)}
           /\ deltaObjects' = deltaObjects \o r.delta
           /\ IF r.kind = "ok"
              THEN UNCHANGED <<pc, result, errmsg>>
              ELSE /\ pc' = "done"
                   /\ result' = r.kind
                   /\ errmsg' = r.msg
    /\ UNCHANGED <<packfile, recs, startStore, numObjects, lastWrite, pktVars, deltaVars, treeVars,
                   sizeVars>>

\* lines 279-281, after the loop
CheckCount ==
    /\ pc = "ingest"
    /\ used >= Len(Body(packfile))
    /\ IF numObjects # objectsRead
       THEN /\ pc' = "done"
            /\ result' = "err"
            /\ errmsg' = "bad object count"
       ELSE /\ pc' = "resolve"
            /\ UNCHANGED <<result, errmsg>>
    /\ UNCHANGED <<packVars, storeVars, pktVars, deltaVars, treeVars,
                   sizeVars>>

\* one pass of the loop of lines 285-299 from queue position i on; slack is
\* the spare capacity behind the base and the delta slices
RECURSIVE resolveFrom(_, _, _, _, _, _, _)
resolveFrom(st, queue, i, unadded, added, log, slack) ==
    IF i > Len(queue)
    THEN [kind |-> IF added THEN "ok" ELSE "err",
          msg |-> IF added THEN "" ELSE "bad delta objects",
          store |-> st, queue |-> IF added THEN unadded ELSE queue, log |-> log]
    ELSE LET delta == queue[i] IN
         IF objectExists(st, delta.baseObject)
         THEN LET o == openObject(st, delta.baseObject)
                  w == writeDeltaObject(st, o.data, Len(o.data) + slack, delta.data,
                                        Len(delta.data) + slack, o.type)
              IN  IF o.kind # "ok"
                  THEN [kind |-> o.kind, msg |-> "open", store |-> st, queue |-> queue,
                        log |-> log]
                  ELSE IF w.kind # "ok"
                  THEN [kind |-> w.kind, msg |-> "bad delta", store |-> st,
                        queue |-> queue, log |-> log]
                  ELSE resolveFrom(w.store, queue, i + 1, unadded, TRUE,
                                   log \cup {Entry(w.out, o.type, ObjectId(o.type, w.out))},
                                   slack)
         ELSE resolveFrom(st, queue, i + 1, Append(unadded, delta), added, log, slack)

\* a resolver that gives up when its first pass leaves a delta unresolved
ResolvePassOnce(slack) ==
    /\ pc = "resolve"
    /\ Len(deltaObjects) > 0
    /\ \E r \in {resolveFrom(store, deltaObjects, 1, <<>>, FALSE, {}, slack)} :
           /\ store' = r.store
           /\ written' = written \cup r.log
           /\ deltaObjects' = r.queue
           /\ IF r.kind = "ok" /\ r.queue = <<>>
              THEN UNCHANGED <<pc, result, errmsg>>
              ELSE /\ pc' = "done"
                   /\ result' = IF r.kind = "ok" THEN "err" ELSE r.kind
                   /\ errmsg' = IF r.kind = "ok" THEN "bad delta objects" ELSE r.msg
    /\ UNCHANGED <<packfile, recs, startStore, used, numObjects, objectsRead, lastType,
                   lastWrite, pktVars, deltaVars, treeVars,
                   sizeVars>>

\* a resolver whose pass leaves the deltas it has resolved in the queue
ResolvePassKeep(slack) ==
    /\ pc = "resolve"
    /\ Len(deltaObjects) > 0
    /\ \E r \in {resolveFrom(store, deltaObjects, 1, <<>>, FALSE, {}, slack)} :
           /\ store' = r.store
           /\ written' = written \cup r.log
           /\ deltaObjects' = deltaObjects
           /\ IF r.kind = "ok"
              THEN UNCHANGED <<pc, result, errmsg>>
              ELSE /\ pc' = "done"
                   /\ result' = r.kind
                   /\ errmsg' = r.msg
    /\ UNCHANGED <<packfile, recs, startStore, used, numObjects, objectsRead, lastType,
                   lastWrite, pktVars, deltaVars, treeVars, sizeVars>>

\* a resolver that returns without an error when a pass has resolved nothing
ResolvePassLenient(slack) ==
    /\ pc = "resolve"
    /\ Len(deltaObjects) > 0
    /\ \E r \in {resolveFrom(store, deltaObjects, 1, <<>>, FALSE, {}, slack)} :
           /\ store' = r.store
           /\ written' = written \cup r.log
           /\ deltaObjects' = r.queue
           /\ IF r.kind = "ok"
              THEN UNCHANGED <<pc, result, errmsg>>
              ELSE /\ pc' = "done"
                   /\ result' = IF r.msg = "bad delta objects" THEN "ok" ELSE r.kind
                   /\ errmsg' = IF r.msg = "bad delta objects" THEN "" ELSE r.msg
    /\ UNCHANGED <<packfile, recs, startStore, used, numObjects, objectsRead, lastType,
                   lastWrite, pktVars, deltaVars, treeVars, sizeVars>>

\* lines 282-304: one pass of the resolver
ResolvePass(slack) ==
    /\ pc = "resolve"
    /\ Len(deltaObjects) > 0
    /\ \E r \in {resolveFrom(store, deltaObjects, 1, <<>>, FALSE, {}, slack)} :
           /\ store' = r.store
           /\ written' = written \cup r.log
           /\ deltaObjects' = r.queue
           /\ IF r.kind = "ok"
              THEN UNCHANGED <<pc, result, errmsg>>
              ELSE /\ pc' = "done"
                   /\ result' = r.kind
                   /\ errmsg' = r.msg
    /\ UNCHANGED <<packfile, recs, startStore, used, numObjects, objectsRead, lastType,
                   lastWrite, pktVars, deltaVars, treeVars,
                   sizeVars>>

\* line 305
Return ==
    /\ pc = "resolve"
    /\ Len(deltaObjects) = 0
    /\ pc' = "done"
    /\ result' = "ok"
    /\ UNCHANGED <<errmsg, packVars, storeVars, pktVars, deltaVars, treeVars,
                   sizeVars>>

Next ==
    \/ \E w \in IdleWrites : WriteObjectWithType(w)
    \/ \E p \in Packs : StartWritePackfile(p)
    \/ ReadRecord
    \/ CheckCount
    \/ \E slack \in {0, 512} : ResolvePass(slack)
    \/ Return

Spec == Init /\ [][Next]_vars

----------------------------------------------------------------------------
(* Claims about writePackfile and the object store *)

Obj(type, object) == [type |-> type, object |-> object]

Name(o) == hexDump(ObjectId(o.type, o.object))

DeltaTags == {"XY", "YX", "XV", "QQ", "BadCopy"}
SoundDeltaTags == {"XY", "YX", "XV", "QQ"}

\* the object a delta record names as its base
BaseOfTag(t) ==
    CASE t = "XY" -> Obj(TextBlob, BytesX)
      [] t = "YX" -> Obj(TextBlob, BytesY)
      [] t = "XV" -> Obj(TextBlob, BytesX)
      [] t = "QQ" -> Obj(TextCommit, BytesQ)
      [] t = "BadCopy" -> Obj(TextBlob, BytesX)

\* the object a well-formed delta record stands for
ResultOfTag(t) ==
    CASE t = "XY" -> Obj(TextBlob, BytesY)
      [] t = "YX" -> Obj(TextBlob, BytesX)
      [] t = "XV" -> Obj(TextBlob, BytesV)
      [] t = "QQ" -> Obj(TextCommit, BytesQQ)

KnownObjects ==
    {Obj(TextBlob, BytesX), Obj(TextBlob, BytesY), Obj(TextBlob, BytesV),
     Obj(TextCommit, BytesQ), Obj(TextCommit, BytesQQ)}

PackBases == IF \E i \in 1..Len(recs) : recs[i] = "X" THEN {Obj(TextBlob, BytesX)} ELSE {}

InStoreAtStart == {o \in KnownObjects : Name(o) \in DOMAIN startStore}

Deltas == {i \in 1..Len(recs) : recs[i] \in DeltaTags}

\* a pack of base objects and well-formed reference-deltas with a true count
WellFormedPack ==
    /\ used >= 12
    /\ \A i \in 1..Len(recs) : recs[i] \in {"X"} \cup SoundDeltaTags

ProducedByAnother(i) ==
    \E j \in Deltas \ {i} : recs[j] \in SoundDeltaTags /\ ResultOfTag(recs[j]) = BaseOfTag(recs[i])

\* the objects reachable from the pack's base objects and the store through
\* the pack's deltas
RECURSIVE Closure(_)
Closure(S) ==
    LET T == S \cup {ResultOfTag(recs[i]) :
                        i \in {j \in Deltas : recs[j] \in SoundDeltaTags
                                              /\ BaseOfTag(recs[j]) \in S}}
    IN  IF T = S THEN S ELSE Closure(T)

Grounded == Closure(PackBases \cup InStoreAtStart)

ReadsBack(o) ==
    LET r == openObject(store, Name(o))
    IN  r.kind = "ok" /\ r.data = o.object /\ r.type = o.type

\* C1 as stated: when every delta's base is a base object of the pack, an
\* object already in the store or the result of another delta of the pack,
\* writePackfile succeeds and every delta's object is in the store.
C1_AnyBase ==
    (pc = "done" /\ WellFormedPack
       /\ \A i \in Deltas : \/ BaseOfTag(recs[i]) \in PackBases \cup InStoreAtStart
                            \/ ProducedByAnother(i))
        => (result = "ok" /\ \A i \in Deltas : ReadsBack(ResultOfTag(recs[i])))

\* C1 as amended: when every delta's base is reachable from a base object of
\* the pack or an object already in the store through deltas of the pack,
\* writePackfile succeeds and every delta's object is in the store, whatever
\* the order of the records.
C1_GroundedBase ==
    (pc = "done" /\ WellFormedPack /\ \A i \in Deltas : BaseOfTag(recs[i]) \in Grounded)
        => (result = "ok" /\ \A i \in Deltas : ReadsBack(ResultOfTag(recs[i])))

C1_Witness ==
    /\ pc = "done" /\ result = "ok"
    /\ recs = <<"YX", "XV", "XY">>
    /\ Name(Obj(TextBlob, BytesX)) \in DOMAIN startStore
    /\ ReadsBack(Obj(TextBlob, BytesV))

\* C2: when some queued delta has a base that is neither in the store, nor a
\* base object of the pack, nor produced by another queued delta,
\* writePackfile returns an error.
C2_MissingBaseIsError ==
    (pc = "done" /\ used >= 12 /\ (\A k \in 1..Len(recs) : recs[k] \in GoodTags)
       /\ \E i \in Deltas : /\ BaseOfTag(recs[i]) \notin PackBases \cup InStoreAtStart
                            /\ ~ProducedByAnother(i))
        => result = "err"

BadEnvelope(p) ==
    \/ Len(p) < 32
    \/ Drop(p, Len(p) - 20) # hash(Take(p, Len(p) - 20))
    \/ Take(p, 4) # TextPACK
    \/ readUint32BigEndian(SubSeq(p, 5, 8)) \notin {2, 3}

\* C3: writePackfile returns an error, and writes no object, when the pack is
\* shorter than 32 bytes, its trailer is not the SHA-1 of the bytes before it,
\* its magic is not "PACK", or its version is not 2 or 3.
C3_BadEnvelopeRejected ==
    (pc # "idle" /\ BadEnvelope(packfile))
        => (pc = "done" /\ result = "err" /\ store = startStore /\ used = 0)

C3_Witness ==
    /\ pc = "done" /\ result = "err" /\ errmsg = "invalid packfile checksum"
    /\ Len(packfile) > 32 /\ Take(packfile, 4) = TextPACK
    /\ store = startStore /\ store # EmptyStore

\* C4: writePackfile succeeds only if ingestion stopped with the read position
\* at the trailer boundary and as many records read as the header declares,
\* and the read position never passes the trailer boundary.
C4_WithinBody ==
    used >= 12
        => /\ used <= Len(packfile) - 20
           /\ result = "ok" => (used = Len(packfile) - 20 /\ objectsRead = numObjects)

OfsIndex == CHOOSE k \in 1..Len(recs) : recs[k] = "Ofs"

\* C5: a pack with an offset-delta record never unpacks: once that record has
\* been consumed writePackfile has returned the error for it, no later record
\* is read and no delta is resolved.
C5_OfsDeltaRejected ==
    (used >= 12 /\ \E k \in 1..Len(recs) : recs[k] = "Ofs")
        => /\ pc # "resolve"
           /\ result # "ok"
           /\ objectsRead <= OfsIndex
           /\ store = startStore \/ DOMAIN store = DOMAIN startStore \cup {Name(Obj(TextBlob, BytesX))}
           /\ objectsRead = OfsIndex
                => (pc = "done" /\ result = "err" /\ lastType = 6
                      /\ errmsg = "cant handle ofsdelta object")

C5_Witness ==
    /\ recs = <<"XY", "Ofs", "X">>
    /\ pc = "done" /\ result = "err" /\ errmsg = "cant handle ofsdelta object"
    /\ objectsRead = 2 /\ Len(deltaObjects) = 1 /\ store = startStore

\* C7: every object written reads back through openObject as the payload and
\* the type it was written with, under the name that is the SHA-1 of its
\* serialized form; the store holds nothing else; and writing the same typed
\* object again leaves the store as it was.
C7_ContentAddressed ==
    /\ \A w \in written :
          /\ w.hash = hash(w.type \o <<32>> \o Itoa(Len(w.object)) \o <<0>> \o w.object)
          /\ LET r == openObject(store, hexDump(w.hash))
             IN  r.kind = "ok" /\ r.data = w.object /\ r.type = w.type
    /\ \A h \in DOMAIN store : \E w \in written : hexDump(w.hash) = h
    /\ lastWrite.kind = "again"
          => /\ store = lastWrite.before
             /\ \A w \in written :
                   (w.object = lastWrite.object /\ w.type = lastWrite.type)
                       => w.hash = lastWrite.hash

C7_Witness ==
    /\ lastWrite.kind = "again"
    /\ Cardinality(DOMAIN store) = 1
    /\ store = lastWrite.before

----------------------------------------------------------------------------
(* writeDeltaObject on its own: a base in the store and a delta against it *)

MaxInstr == 2

BytesBig == [i \in 1..65537 |-> 1 + (i % 7)] \o <<>>

Literal127 == [i \in 1..127 |-> i]

SmallInstrs ==
    {Copy(o, n) : o \in 0..2, n \in 1..3} \cup {Insert(<<99>>), Insert(<<100, 0>>),
                                               Insert(Literal127)}

InstrLists(base) ==
    IF Len(base) > 65536
    THEN {<<Copy(0, 65536)>>, <<Copy(1, 65536)>>, <<Copy(255, 256), Copy(65536, 1)>>}
    ELSE {is \in UNION {[1..k -> SmallInstrs] : k \in 0..MaxInstr} :
            \A k \in 1..Len(is) : is[k].op = "copy" => is[k].off + is[k].size <= Len(base)}

DeltaCases ==
    {[base |-> b, type |-> t, instrs |-> is] :
        b \in {BytesY}, t \in {TextBlob, TextTree}, is \in InstrLists(BytesY)}
      \cup {[base |-> BytesBig, type |-> TextBlob, instrs |-> is] : is \in InstrLists(BytesBig)}

InitDelta ==
    /\ pc = "delta"
    /\ \E c \in DeltaCases :
          /\ dBase = c.base
          /\ dType = c.type
          /\ dDelta = EncodeDelta(c.base, c.instrs)
          /\ dTarget = Target(c.base, c.instrs)
          /\ store = writeObjectWithType(EmptyStore, c.base, c.type).store
    /\ written = {}
    /\ lastWrite = NoWrite
    /\ packfile = <<>>
    /\ recs = <<>>
    /\ startStore = EmptyStore
    /\ used = 0
    /\ numObjects = 0
    /\ objectsRead = 0
    /\ lastType = 0
    /\ deltaObjects = <<>>
    /\ result = "none"
    /\ errmsg = ""
    /\ discovery = <<>>
    /\ pktLines = <<>>
    /\ lastIn = <<>>
    /\ lastOut = NoLine
    /\ objectName = <<>>
    /\ getStatus = 0
    /\ postStatus = 0
    /\ request = <<>>
    /\ workTree = <<>>
    /\ treeObject = <<>>
    /\ header = <<>>
    /\ headerOut = <<>>

\* lines 288-295: the base is opened and the delta applied to it
ApplyDelta(slack) ==
    /\ pc = "delta"
    /\ \E o \in {openObject(store, Name(Obj(dType, dBase)))} :
       \E w \in {writeDeltaObject(store, o.data, Len(o.data) + slack, dDelta,
                                 Len(dDelta) + slack, o.type)} :
           /\ pc' = "done"
           /\ result' = IF o.kind # "ok" THEN o.kind ELSE w.kind
           /\ store' = IF o.kind # "ok" THEN store ELSE w.store
    /\ UNCHANGED <<errmsg, written, lastWrite, packVars, pktVars, deltaVars, treeVars,
                   sizeVars>>

NextDelta == \E slack \in {0, 512} : ApplyDelta(slack)

SpecDelta == InitDelta /\ [][NextDelta]_vars

\* C6: for a base X and a well-formed delta that encodes Y against X,
\* writeDeltaObject reconstructs exactly Y and stores it under the type of
\* the base object.
C6_DeltaReconstructs ==
    (pc = "done" /\ dDelta # <<>>)
        => /\ result = "ok"
           /\ LET r == openObject(store, Name(Obj(dType, dTarget)))
              IN  r.kind = "ok" /\ r.data = dTarget /\ r.type = dType

C6_Witness ==
    /\ pc = "done" /\ result = "ok"
    /\ dBase = BytesY /\ dType = TextTree
    /\ dDelta = <<3, 3, 145, 1, 2, 1, 99>>
    /\ dTarget = <<98, 99, 99>>
    /\ Name(Obj(TextTree, <<98, 99, 99>>)) \in DOMAIN store

----------------------------------------------------------------------------
(* Claims about the two requests of getPackfile *)

\* C11: getPackfile returns an error whenever the response to the GET of
\* info/refs or to the POST of git-upload-pack has a status other than 200.
C11_Non200IsError ==
    (pc = "done" /\ (getStatus \notin {0, 200} \/ postStatus \notin {0, 200}))
        => result = "err"

----------------------------------------------------------------------------
(* writeTree: a directory encoded as a tree object *)

MaxDepth == 2

DotGit == <<46, 103, 105, 116>>

TreeEntryModeBlob == <<49, 48, 48, 54, 52, 52>>
TreeEntryModeTree == <<52, 48, 48, 48, 48>>

\* a < b for two Go strings
RECURSIVE Less(_, _)
Less(a, b) ==
    IF b = <<>> THEN FALSE
    ELSE IF a = <<>> THEN TRUE
    ELSE IF a[1] # b[1] THEN a[1] < b[1]
    ELSE Less(Tail(a), Tail(b))

\* sort.SliceStable by name: e goes behind the entries that are not greater
RECURSIVE InsertEntry(_, _)
InsertEntry(es, e) ==
    IF es = <<>> THEN <<e>>
    ELSE IF Less(e.name, es[1].name) THEN <<e>> \o es
    ELSE <<es[1]>> \o InsertEntry(Tail(es), e)

RECURSIVE SortStable(_)
SortStable(es) ==
    IF es = <<>> THEN <<>>
    ELSE InsertEntry(SortStable(Take(es, Len(es) - 1)), es[Len(es)])

\* TreeEntry.Bytes
TreeEntryBytes(t) == t.mode \o <<32>> \o t.name \o <<0>> \o t.hash

RECURSIVE EntriesBytes(_)
EntriesBytes(es) ==
    IF es = <<>> THEN <<>> ELSE TreeEntryBytes(es[1]) \o EntriesBytes(Tail(es))

blobObject(b) == TextBlob \o <<32>> \o Itoa(Len(b)) \o <<0>> \o b

writeBlob(st, content) == writeObject(st, blobObject(content))

\* writeTree of the directory at path (the names below ".", none for "."
\* itself) whose entries, as os.ReadDir lists them, are kids
RECURSIVE writeTree(_, _, _)
RECURSIVE treeDirs(_, _, _, _, _)
RECURSIVE treeFiles(_, _, _, _)

\* the first loop, over the directories, from entry i on
treeDirs(st, path, kids, i, entries) ==
    IF i > Len(kids) THEN [store |-> st, entries |-> entries]
    ELSE IF Append(path, kids[i].name) = <<DotGit>> \/ ~kids[i].isDir
         THEN treeDirs(st, path, kids, i + 1, entries)
    ELSE LET w == writeTree(st, Append(path, kids[i].name), kids[i].kids)
         IN  treeDirs(w.store, path, kids, i + 1,
                      Append(entries, [name |-> kids[i].name, hash |-> w.object,
                                       mode |-> TreeEntryModeTree]))

\* the second loop, over the files, from entry i on
treeFiles(st, kids, i, entries) ==
    IF i > Len(kids) THEN [store |-> st, entries |-> entries]
    ELSE IF kids[i].isDir THEN treeFiles(st, kids, i + 1, entries)
    ELSE LET w == writeBlob(st, kids[i].data)
         IN  treeFiles(w.store, kids, i + 1,
                       Append(entries, [name |-> kids[i].name, hash |-> w.object,
                                        mode |-> TreeEntryModeBlob]))

writeTree(st, path, kids) ==
    LET d == treeDirs(st, path, kids, 1, <<>>)
        f == treeFiles(d.store, kids, 1, d.entries)
        buf == EntriesBytes(SortStable(f.entries))
    IN  writeObject(f.store, TextTree \o <<32>> \o Itoa(Len(buf)) \o <<0>> \o buf)

\* parseTreeEntry
parseTreeEntry(b) ==
    LET i == IndexByte(b, 0)
        sp == IndexByte(Take(b, i), 32)
    IN  IF i < 0 \/ sp < 0 THEN [err |-> TRUE, skipN |-> 0, mode |-> <<>>,
                                 name |-> <<>>, hash |-> <<>>]
        ELSE [err |-> FALSE, skipN |-> i + 21, mode |-> Take(b, sp),
              name |-> SubSeq(b, sp + 2, i), hash |-> SubSeq(b, i + 2, i + 21)]

\* the loop of parseTree from offset on
RECURSIVE parseTreeFrom(_, _)
parseTreeFrom(b, offset) ==
    IF offset >= Len(b) THEN <<>>
    ELSE LET e == parseTreeEntry(Drop(b, offset))
         IN  IF e.err THEN <<>> ELSE <<e>> \o parseTreeFrom(b, offset + e.skipN)

parseTree(b) == parseTreeFrom(b, IndexByte(b, 0) + 1)

readTree(st, object) == parseTree(readObject(st, object).data)

\* directories: a file is a name and its content, a directory a name and its
\* entries in the order of os.ReadDir, which is the order of the names
FileEntry(name) == [name |-> name, isDir |-> FALSE, data |-> <<120>>, kids |-> <<>>]
DirEntry(name, kids) == [name |-> name, isDir |-> TRUE, data |-> <<>>, kids |-> kids]

\* the lists of entries of directories nested at most d deep, one entry of
\* which at most is a directory; names are ".git" and "a"
RECURSIVE Listings(_)
Listings(d) ==
    LET files == {<<>>, <<FileEntry(DotGit)>>, <<FileEntry(<<97>>)>>,
                  <<FileEntry(DotGit), FileEntry(<<97>>)>>}
        below == IF d = 0 THEN {} ELSE Listings(d - 1)
    IN  files
          \cup {<<DirEntry(DotGit, k)>> : k \in below}
          \cup {<<DirEntry(<<97>>, k)>> : k \in below}
          \cup {<<DirEntry(DotGit, k), FileEntry(<<97>>)>> : k \in below}
          \cup {<<FileEntry(DotGit), DirEntry(<<97>>, k)>> : k \in below}

InitTree ==
    /\ pc = "tree"
    /\ workTree \in Listings(MaxDepth)
    /\ treeObject = <<>>
    /\ store = EmptyStore
    /\ written = {}
    /\ lastWrite = NoWrite
    /\ packfile = <<>>
    /\ recs = <<>>
    /\ startStore = EmptyStore
    /\ used = 0
    /\ numObjects = 0
    /\ objectsRead = 0
    /\ lastType = 0
    /\ deltaObjects = <<>>
    /\ result = "none"
    /\ errmsg = ""
    /\ discovery = <<>>
    /\ pktLines = <<>>
    /\ lastIn = <<>>
    /\ lastOut = NoLine
    /\ objectName = <<>>
    /\ getStatus = 0
    /\ postStatus = 0
    /\ request = <<>>
    /\ dBase = <<>>
    /\ dDelta = <<>>
    /\ dType = <<>>
    /\ dTarget = <<>>
    /\ header = <<>>
    /\ headerOut = <<>>

\* the write-tree command: writeTree(".")
WriteTree ==
    /\ pc = "tree"
    /\ \E w \in {writeTree(store, <<>>, workTree)} :
          /\ store' = w.store
          /\ treeObject' = w.object
    /\ pc' = "done"
    /\ result' = "ok"
    /\ UNCHANGED <<errmsg, written, lastWrite, workTree, packVars, pktVars, deltaVars,
                   sizeVars>>

NextTree == WriteTree

SpecTree == InitTree /\ [][NextTree]_vars

\* the entries of the tree object named h and of the trees below it, each
\* with the number of trees above it
RECURSIVE EntriesBelow(_, _)
EntriesBelow(h, depth) ==
    LET es == readTree(store, hexDump(h))
    IN  {[depth |-> depth, mode |-> es[i].mode, name |-> es[i].name] : i \in 1..Len(es)}
          \cup UNION {EntriesBelow(es[i].hash, depth + 1) :
                        i \in {j \in 1..Len(es) : es[j].mode = TreeEntryModeTree}}

\* the lists of entries of the tree object named h and of the trees below it
RECURSIVE TreesBelow(_)
TreesBelow(h) ==
    LET es == readTree(store, hexDump(h))
    IN  {es} \cup UNION {TreesBelow(es[i].hash) :
                           i \in {j \in 1..Len(es) : es[j].mode = TreeEntryModeTree}}

\* C12: writeTree produces a tree whose entries are sorted by name and that
\* has no entry for the directory .git at the top level nor for any entry
\* named .git at any depth below it.
C12_SortedWithoutGit ==
    pc = "done" =>
        /\ \A es \in TreesBelow(treeObject) :
              \A i \in 1..(Len(es) - 1) : ~Less(es[i + 1].name, es[i].name)
        /\ \A e \in EntriesBelow(treeObject, 0) :
              e.name = DotGit => (e.depth = 0 /\ e.mode # TreeEntryModeTree)

----------------------------------------------------------------------------
(* Termination of the resolver *)

MaxQueue == 3

\* a queued reference-delta, as the ingestion loop leaves it
Queued(base, instrs) ==
    [baseObject |-> Name(base), data |-> EncodeDelta(base.object, instrs)]

QueuedDeltas ==
    {Queued(Obj(TextBlob, BytesX), InstrXY), Queued(Obj(TextBlob, BytesY), InstrYX),
     Queued(Obj(TextBlob, BytesX), InstrXV), Queued(Obj(TextCommit, BytesQ), InstrQQ),
     [baseObject |-> Name(Obj(TextBlob, BytesX)), data |-> <<2, 2, 128>>]}

RECURSIVE StoreOf(_)
StoreOf(objects) ==
    IF objects = {} THEN EmptyStore
    ELSE LET o == CHOOSE x \in objects : TRUE
         IN  writeObjectWithType(StoreOf(objects \ {o}), o.object, o.type).store

\* the resolver entered with any queue over any store
InitResolve ==
    /\ pc = "resolve"
    /\ deltaObjects \in UNION {[1..n -> QueuedDeltas] : n \in 0..MaxQueue}
    /\ store \in {StoreOf(S) : S \in SUBSET {Obj(TextBlob, BytesX), Obj(TextBlob, BytesY),
                                             Obj(TextCommit, BytesQ)}}
    /\ startStore = store
    /\ written = {}
    /\ lastWrite = NoWrite
    /\ packfile = <<>>
    /\ recs = <<>>
    /\ used = 0
    /\ numObjects = Len(deltaObjects)
    /\ objectsRead = Len(deltaObjects)
    /\ lastType = 0
    /\ result = "none"
    /\ errmsg = ""
    /\ discovery = <<>>
    /\ pktLines = <<>>
    /\ lastIn = <<>>
    /\ lastOut = NoLine
    /\ objectName = <<>>
    /\ getStatus = 0
    /\ postStatus = 0
    /\ request = <<>>
    /\ dBase = <<>>
    /\ dDelta = <<>>
    /\ dType = <<>>
    /\ dTarget = <<>>
    /\ workTree = <<>>
    /\ treeObject = <<>>
    /\ header = <<>>
    /\ headerOut = <<>>

NextResolve ==
    \/ \E slack \in {0, 512} : ResolvePass(slack)
    \/ Return

SpecResolve == InitResolve /\ [][NextResolve]_vars

\* C13: the resolver loop terminates: every pass either resolves a delta and
\* strictly shrinks the queue, or ends the operation with a failure, and with
\* an empty queue the operation ends; the length of the queue is the variant.
C13_ResolverTerminates ==
    [][pc = "resolve"
         => \/ /\ pc' = "resolve"
               /\ Len(deltaObjects') < Len(deltaObjects)
               /\ DOMAIN store' # DOMAIN store \/ written' # {}
            \/ /\ pc' = "done"
               /\ IF Len(deltaObjects) = 0 THEN result' = "ok"
                  ELSE result' \in {"err", "panic"}]_vars

C13_Witness ==
    /\ pc = "resolve"
    /\ DOMAIN startStore = {Name(Obj(TextBlob, BytesX))}
    /\ Len(deltaObjects) = 1 /\ deltaObjects[1].baseObject = Name(Obj(TextBlob, BytesY))
    /\ Name(Obj(TextBlob, BytesV)) \in DOMAIN store

----------------------------------------------------------------------------
(* The queue of unresolved deltas at the exits of writePackfile *)

\* C14 as stated: at every exit of writePackfile the queue of unresolved
\* reference-deltas is empty.
C14_EmptyAtExit == pc = "done" => deltaObjects = <<>>

\* C14 as amended: when writePackfile returns without an error the queue is
\* empty and the object of every reference-delta read from the pack is in the
\* store.
C14_EmptyAtSuccess ==
    (pc = "done" /\ result = "ok")
        => /\ deltaObjects = <<>>
           /\ \A i \in Deltas :
                 recs[i] \in SoundDeltaTags /\ ReadsBack(ResultOfTag(recs[i]))

C14_Witness ==
    /\ pc = "done" /\ result = "ok"
    /\ recs = <<"XY", "X", "XV">>
    /\ startStore = EmptyStore
    /\ deltaObjects = <<>>
    /\ ReadsBack(Obj(TextBlob, BytesY)) /\ ReadsBack(Obj(TextBlob, BytesV))

----------------------------------------------------------------------------
(* readObjectHeader and readSize on their own *)

MaxCont == 9

\* a first byte, k bytes m with the continuation bit, and a last byte
HeaderInputs ==
    {<<53>>, <<0>>, <<127>>}
      \cup {<<f>> \o [i \in 1..k |-> m] \o <<l>> :
              f \in {128, 191}, k \in 0..MaxCont, m \in {128, 255},
              l \in {0, 1, 2, 15, 16, 127, 128}}

NoHeader == [kind |-> "none"]

InitSize ==
    /\ pc = "size"
    /\ header \in HeaderInputs
    /\ headerOut = [hdr |-> NoHeader, size |-> NoHeader]
    /\ workTree = <<>>
    /\ treeObject = <<>>
    /\ store = EmptyStore
    /\ written = {}
    /\ lastWrite = NoWrite
    /\ packfile = <<>>
    /\ recs = <<>>
    /\ startStore = EmptyStore
    /\ used = 0
    /\ numObjects = 0
    /\ objectsRead = 0
    /\ lastType = 0
    /\ deltaObjects = <<>>
    /\ result = "none"
    /\ errmsg = ""
    /\ discovery = <<>>
    /\ pktLines = <<>>
    /\ lastIn = <<>>
    /\ lastOut = NoLine
    /\ objectName = <<>>
    /\ getStatus = 0
    /\ postStatus = 0
    /\ request = <<>>
    /\ dBase = <<>>
    /\ dDelta = <<>>
    /\ dType = <<>>
    /\ dTarget = <<>>

\* lines 224 and 249, 314, 322: the two readers applied to the bytes at the
\* read position
ReadHeader ==
    /\ pc = "size"
    /\ headerOut' = [hdr |-> readObjectHeader(header), size |-> readSize(header)]
    /\ pc' = "done"
    /\ UNCHANGED <<header, result, errmsg, packVars, storeVars, pktVars, deltaVars,
                   treeVars>>

NextSize == ReadHeader

SpecSize == InitSize /\ [][NextSize]_vars

\* the one bits of the number that the bytes of p encode from byte i on, seven
\* bits a byte, the bits of byte i standing at shift
RECURSIVE EncodedBits(_, _, _)
EncodedBits(p, i, shift) ==
    IF i > Len(p) THEN {}
    ELSE {shift + k : k \in {j \in 0..6 : ((p[i] % 128) \div (2 ^ j)) % 2 = 1}}
           \cup (IF p[i] >= 128 THEN EncodedBits(p, i + 1, shift + 7) ELSE {})

\* the size readSize is to return, and the one readObjectHeader is to return
EncodedSize(p) == EncodedBits(p, 1, 0)
EncodedHeaderSize(p) ==
    {k \in 0..3 : ((p[1] % 16) \div (2 ^ k)) % 2 = 1}
      \cup (IF p[1] >= 128 THEN EncodedBits(p, 2, 4) ELSE {})

\* C15: readObjectHeader and readSize reject every header whose continuation
\* bytes put size bits past bit 63, and a size they return is the exact value
\* the bytes encode.
C15_ExactSize ==
    pc = "done" =>
        /\ (\E b \in EncodedSize(header) : b > 63) => headerOut.size.kind = "err"
        /\ headerOut.size.kind = "ok" => headerOut.size.size = EncodedSize(header)
        /\ (\E b \in EncodedHeaderSize(header) : b > 63) => headerOut.hdr.kind = "err"
        /\ headerOut.hdr.kind = "ok" => headerOut.hdr.size = EncodedHeaderSize(header)

----------------------------------------------------------------------------
(* writeDeltaObject on delta streams of any shape *)

\* instructions as bytes: an insert of no bytes, an insert of one byte, an
\* insert of two bytes that has one, copies of [0,3) and [1,3) inside a base
\* of three bytes, copies of [2,4) and [0,4) that end past it, a copy whose
\* offset byte is missing, and a copy of 0x10000 bytes from offset 0
RawInstrs ==
    {<<0>>, <<1, 99>>, <<2, 100>>, <<144, 3>>, <<145, 1, 2>>, <<145, 2, 2>>,
     <<144, 4>>, <<145>>, <<128>>}

RECURSIVE Joined(_)
Joined(is) == IF is = <<>> THEN <<>> ELSE Head(is) \o Joined(Tail(is))

RawDeltas ==
    {<<>>, <<3>>, <<128>>, <<3, 128>>}
      \cup {<<b, e>> \o Joined(is) :
              b \in {2, 3}, e \in 0..5,
              is \in UNION {[1..k -> RawInstrs] : k \in 0..MaxInstr}}

InitRawDelta ==
    /\ pc = "rawdelta"
    /\ dBase = BytesY
    /\ dType = TextBlob
    /\ dDelta \in RawDeltas
    /\ dTarget = <<>>
    /\ store = writeObjectWithType(EmptyStore, BytesY, TextBlob).store
    /\ startStore = store
    /\ written = {}
    /\ lastWrite = NoWrite
    /\ packfile = <<>>
    /\ recs = <<>>
    /\ used = 0
    /\ numObjects = 0
    /\ objectsRead = 0
    /\ lastType = 0
    /\ deltaObjects = <<>>
    /\ result = "none"
    /\ errmsg = ""
    /\ discovery = <<>>
    /\ pktLines = <<>>
    /\ lastIn = <<>>
    /\ lastOut = NoLine
    /\ objectName = <<>>
    /\ getStatus = 0
    /\ postStatus = 0
    /\ request = <<>>
    /\ workTree = <<>>
    /\ treeObject = <<>>
    /\ header = <<>>
    /\ headerOut = <<>>

\* lines 288-295: the base is opened and the delta applied to it; written
\* takes the object that writeObjectWithType was called with at line 355
WriteDeltaObject(slack) ==
    /\ pc = "rawdelta"
    /\ \E o \in {openObject(store, Name(Obj(dType, dBase)))} :
       \E w \in {writeDeltaObject(store, o.data, Len(o.data) + slack, dDelta,
                                 Len(dDelta) + slack, o.type)} :
           /\ pc' = "done"
           /\ result' = IF o.kind # "ok" THEN o.kind ELSE w.kind
           /\ store' = IF o.kind # "ok" THEN store ELSE w.store
           /\ dTarget' = IF o.kind = "ok" /\ w.wrote THEN w.out ELSE <<>>
           /\ written' = IF o.kind = "ok" /\ w.wrote
                         THEN {Entry(w.out, o.type, ObjectId(o.type, w.out))}
                         ELSE {}
    /\ UNCHANGED <<errmsg, lastWrite, packVars, pktVars, dBase, dDelta, dType,
                   treeVars, sizeVars>>

NextRawDelta == \E slack \in {0, 512} : WriteDeltaObject(slack)

SpecRawDelta == InitRawDelta /\ [][NextRawDelta]_vars

\* the instructions that the bytes of d hold from read position usedN on, as
\* the delta format defines them; ok is FALSE when the bytes end inside one
RECURSIVE Instructions(_, _, _)
Instructions(d, usedN, acc) ==
    IF usedN >= Len(d) THEN [ok |-> TRUE, instrs |-> acc]
    ELSE LET opcode == d[usedN + 1] IN
         IF opcode >= 128
         THEN LET a == copyOperand(d, opcode, 0, usedN + 1, <<>>)
              IN  IF a.panic THEN [ok |-> FALSE, instrs |-> acc]
                  ELSE Instructions(d, a.used,
                                    Append(acc, [op |-> "copy", off |-> copyOffset(a.bytes),
                                                 size |-> copySize(a.bytes)]))
         ELSE IF usedN + 1 + opcode > Len(d)
              THEN [ok |-> FALSE, instrs |-> Append(acc, [op |-> "insert", off |-> 0,
                                                          size |-> opcode])]
              ELSE Instructions(d, usedN + 1 + opcode,
                                Append(acc, [op |-> "insert", off |-> 0, size |-> opcode]))

\* the two declared sizes of d and its instructions
DeltaHeader(d) ==
    LET bs == readSize(d)
        es == IF bs.kind = "ok" THEN readSize(Drop(d, bs.used))
              ELSE [kind |-> "err", size |-> {}, used |-> 0]
        is == IF es.kind = "ok" THEN Instructions(d, bs.used + es.used, <<>>)
              ELSE [ok |-> FALSE, instrs |-> <<>>]
    IN  [ok |-> bs.kind = "ok" /\ es.kind = "ok", base |-> IntOf(bs.size),
         result |-> IntOf(es.size), whole |-> is.ok, instrs |-> is.instrs]

RECURSIVE OutputLength(_)
OutputLength(is) == IF is = <<>> THEN 0 ELSE Head(is).size + OutputLength(Tail(is))

\* C16: writeDeltaObject returns an error and writes no object for every
\* delta that holds an insert instruction of 0 bytes (instruction byte 0x00).
C16_ZeroInsertRejected ==
    LET d == DeltaHeader(dDelta)
    IN  (pc = "done" /\ d.ok
           /\ \E k \in 1..Len(d.instrs) : d.instrs[k].op = "insert" /\ d.instrs[k].size = 0)
            => result = "err" /\ written = {} /\ store = startStore

\* C17: writeDeltaObject writes an object only if the declared base size is
\* the length of the base, every copy lies inside the base, and the length of
\* the output is the declared result size; in every other case it fails and
\* the store is as it was.
C17_WritesOnlyChecked ==
    LET d == DeltaHeader(dDelta)
        checked == /\ d.ok
                   /\ d.base = Len(dBase)
                   /\ \A k \in 1..Len(d.instrs) :
                         d.instrs[k].op = "copy"
                             => d.instrs[k].off + d.instrs[k].size <= Len(dBase)
                   /\ OutputLength(d.instrs) = d.result
    IN  pc = "done"
            => /\ written # {} => checked
               /\ ~checked => result \in {"err", "panic"} /\ store = startStore

====
